---------------------------- MODULE Spec2Model ----------------------------
(***************************************************************************)
(* LeituraPRO: the App component's in-memory store (students, classes,     *)
(* assessments) and navigation, the StudentList add/edit/delete flows and   *)
(* AI report, the Dashboard's derived analytics (filter, statistics, time   *)
(* series, level distribution) with their memoization, and the             *)
(* TextGenerator.                                                          *)
(*                                                                         *)
(* Spec follows the App from its mock data.  SpecDash, SpecDates and        *)
(* SpecMemo follow a mounted Dashboard, SpecAI a mounted StudentList and    *)
(* SpecGen a mounted TextGenerator; the state of the components that a      *)
(* specification does not follow stays at its initial value.                *)
(*                                                                         *)
(* Strings that the code only compares for equality (ids, view names,      *)
(* reading levels) are TLA+ strings.  Strings the code looks into (student  *)
(* names, search text, date keys) are sequences of characters.              *)
(* Fields no modelled computation reads (avatarUrl, gradeLevel, notes,      *)
(* comprehension, criteria) and the presentation flag mobileMenuOpen are    *)
(* left out of the records.                                                 *)
(***************************************************************************)
EXTENDS Integers, Sequences, FiniteSets, TLC

VARIABLES
    currentView,         \* App: useState<ViewState>
    students,            \* App: useState<Student[]>
    assessments,         \* App: useState<Assessment[]>
    classes,             \* App: useState<SchoolClass[]>
    selectedClassId,     \* App: class-filter navigation parameter
    selectedStudentId,   \* App: selected-student navigation parameter
    filterClassId,       \* StudentList: class filter of the list
    isModalOpen,         \* StudentList: add/edit modal shown
    studentToEdit,       \* StudentList: <<>> (undefined) or <<student>>
    dashSelectedClassId, \* Dashboard: selectedClassId, "all" or a class id
    searchStudent,       \* Dashboard: search text
    memo,                \* Dashboard: what its useMemo cells hold, <<>> when not followed
    selectedStudent,     \* StudentList: <<>> (null) or <<student of the AI report modal>>
    aiAnalysis,          \* StudentList: <<>> (null) or <<report>>
    loadingAi,           \* StudentList: the AI report is being waited for
    analysisRequests,    \* calls of generateStudentAnalysis that have not returned
    topic,               \* TextGenerator: the topic input
    level,               \* TextGenerator: the school level select
    loading,             \* TextGenerator: a text is being waited for
    result,              \* TextGenerator: <<>> (null) or <<reading material>>
    error,               \* TextGenerator: the error message, "" when none
    materialRequests     \* calls of generateReadingMaterial that have not returned

appVars == <<currentView, students, assessments, classes, selectedClassId, selectedStudentId>>
listVars == <<filterClassId, isModalOpen, studentToEdit>>
dashVars == <<dashSelectedClassId, searchStudent>>
aiVars == <<selectedStudent, aiAnalysis, loadingAi, analysisRequests>>
genVars == <<topic, level, loading, result, error, materialRequests>>
vars == <<currentView, students, assessments, classes, selectedClassId, selectedStudentId,
          filterClassId, isModalOpen, studentToEdit, dashSelectedClassId, searchStudent, memo,
          selectedStudent, aiAnalysis, loadingAi, analysisRequests,
          topic, level, loading, result, error, materialRequests>>

----------------------------------------------------------------------------
(* Bounds of the model *)

\* Records the store may hold (classes, students and assessments together).
MaxRecords == 4
\* Records each of the three collections may hold.
MaxPerCollection == 2
\* Students and assessments of the Dashboard's props when the filter is explored.
MaxFilterStudents == 2
MaxFilterAssessments == 2
\* Assessments of the Dashboard's props when the aggregates are explored.
MaxAggAssessments == 3
\* Students of the Dashboard's props when the level distribution is explored.
MaxLevelStudents == 3
\* Assessments of one student in the StudentList's props when the AI report is explored.
MaxReportAssessments == 4
\* Calls of generateStudentAnalysis that may be pending together.
MaxRequests == 2
\* Calls of generateReadingMaterial that may be pending together.
MaxMaterialRequests == 2
\* Assessments of the Dashboard's props when the writing of dates is explored.
MaxDateAssessments == 2
\* Assessments the Dashboard may receive when its useMemo cells are explored.
MaxMemoAssessments == 2

----------------------------------------------------------------------------
(* Value domains *)

ViewStates == {"DASHBOARD", "CLASSES", "STUDENTS", "STUDENT_HISTORY", "ASSESSMENT"}

\* Outcomes of Math.random().toString(36).substr(2, 9): nothing in the code
\* keeps two calls from returning the same string.
ClassIdSpace == {"c1", "c2"}
StudentIdSpace == {"s1", "s2"}
AssessmentIdSpace == {"a1", "a2"}

\* Characters, with their lower-case form.
ToLowerChar(ch) ==
    CASE ch = "A" -> "a"
      [] ch = "B" -> "b"
      [] ch = "N" -> "n"
      [] OTHER -> ch

NameAna == <<"A", "n", "a">>
NameBia == <<"B", "i", "a">>
Names == {NameAna, NameBia}
ClassNames == {"Turma A", "Turma B"}
Levels == {"Iniciante", "Fluente"}

\* Date keys "YYYY-MM-DD" as sequences of UTF-16 code units, written so that the
\* order of the numbers is the order of the code units: "-" (45) is -1 and the
\* digits "0".."9" (48..57) are 0..9.
Dash == -1
Date20231231 == <<2, 0, 2, 3, Dash, 1, 2, Dash, 3, 1>>
Date20240301 == <<2, 0, 2, 4, Dash, 0, 3, Dash, 0, 1>>
Date20240302 == <<2, 0, 2, 4, Dash, 0, 3, Dash, 0, 2>>
Dates == {Date20231231, Date20240301, Date20240302}

Metrics == {[wpm |-> 40, accuracy |-> 80], [wpm |-> 61, accuracy |-> 85]}

----------------------------------------------------------------------------
(* Array helpers *)

StoreSize == Len(classes) + Len(students) + Len(assessments)

SeqsUpTo(S, n) == UNION {[1..k -> S] : k \in 0..n}

Range(s) == {s[i] : i \in DOMAIN s}

IdsOf(s) == {s[i].id : i \in DOMAIN s}

\* Array.prototype.filter is SelectSeq; Array.prototype.map is [i \in DOMAIN s |-> ...].

----------------------------------------------------------------------------
(* StudentList: local state over the component's life *)

\* useState initial values when StudentList mounts with prop initialClassId.
StudentListMount(initialClassId) ==
    /\ filterClassId' = initialClassId
    /\ isModalOpen' = FALSE
    /\ studentToEdit' = <<>>

\* StudentList is rendered only in the STUDENTS view; its state is kept while the
\* view stays STUDENTS, created when the view becomes STUDENTS and dropped otherwise.
StudentListAfter(nextView, initialClassId) ==
    IF nextView = "STUDENTS"
    THEN IF currentView = "STUDENTS"
         THEN UNCHANGED listVars
         ELSE StudentListMount(initialClassId)
    ELSE StudentListMount("")

\* The students the list shows (search term empty).
ListMatchesClass(s) == IF filterClassId # "" THEN s.classId = filterClassId ELSE TRUE

ListFilteredStudents == SelectSeq(students, ListMatchesClass)

----------------------------------------------------------------------------
(* App: store handlers *)

handleAddClass(newClass, randomId) ==
    /\ classes' = Append(classes, [id |-> randomId, name |-> newClass.name])
    /\ UNCHANGED <<currentView, students, assessments, selectedClassId, selectedStudentId>>

handleUpdateClass_Upsert(updatedClass) ==
    /\ classes' = IF updatedClass.id \in IdsOf(classes)
                  THEN [i \in DOMAIN classes |->
                           IF classes[i].id = updatedClass.id THEN updatedClass ELSE classes[i]]
                  ELSE Append(classes, updatedClass)
    /\ UNCHANGED <<currentView, students, assessments, selectedClassId, selectedStudentId>>

handleUpdateClass(updatedClass) ==
    /\ classes' = [i \in DOMAIN classes |->
                      IF classes[i].id = updatedClass.id THEN updatedClass ELSE classes[i]]
    /\ UNCHANGED <<currentView, students, assessments, selectedClassId, selectedStudentId>>

handleDeleteClass_UnsetAll(id, confirmed) ==
    /\ IF confirmed
       THEN /\ classes' = SelectSeq(classes, LAMBDA c : c.id # id)
            /\ students' = [i \in DOMAIN students |-> [students[i] EXCEPT !.classId = ""]]
       ELSE UNCHANGED <<classes, students>>
    /\ UNCHANGED <<currentView, assessments, selectedClassId, selectedStudentId>>

handleDeleteClass_KeepRefs(id, confirmed) ==
    /\ IF confirmed
       THEN /\ classes' = SelectSeq(classes, LAMBDA c : c.id # id)
            /\ students' = students
       ELSE UNCHANGED <<classes, students>>
    /\ UNCHANGED <<currentView, assessments, selectedClassId, selectedStudentId>>

handleDeleteClass(id, confirmed) ==
    /\ IF confirmed
       THEN /\ classes' = SelectSeq(classes, LAMBDA c : c.id # id)
            /\ students' = [i \in DOMAIN students |->
                               IF students[i].classId = id
                               THEN [students[i] EXCEPT !.classId = ""]
                               ELSE students[i]]
       ELSE UNCHANGED <<classes, students>>
    /\ UNCHANGED <<currentView, assessments, selectedClassId, selectedStudentId>>

handleAddStudent(newStudent, randomId) ==
    /\ students' = Append(students, [id |-> randomId, name |-> newStudent.name,
                                     classId |-> newStudent.classId,
                                     readingLevel |-> newStudent.readingLevel])
    /\ UNCHANGED <<currentView, assessments, classes, selectedClassId, selectedStudentId>>

handleUpdateStudent(updatedStudent) ==
    /\ students' = [i \in DOMAIN students |->
                       IF students[i].id = updatedStudent.id THEN updatedStudent ELSE students[i]]
    /\ UNCHANGED <<currentView, assessments, classes, selectedClassId, selectedStudentId>>

handleDeleteStudent_NoConfirm(id, confirmed) ==
    /\ students' = SelectSeq(students, LAMBDA s : s.id # id)
    /\ UNCHANGED <<currentView, assessments, classes, selectedClassId, selectedStudentId>>

handleDeleteStudent_Cascade(id, confirmed) ==
    /\ IF confirmed
       THEN /\ students' = SelectSeq(students, LAMBDA s : s.id # id)
            /\ assessments' = SelectSeq(assessments, LAMBDA a : a.studentId # id)
       ELSE UNCHANGED <<students, assessments>>
    /\ UNCHANGED <<currentView, classes, selectedClassId, selectedStudentId>>

handleDeleteStudent(id, confirmed) ==
    /\ IF confirmed
       THEN students' = SelectSeq(students, LAMBDA s : s.id # id)
       ELSE UNCHANGED students
    /\ UNCHANGED <<currentView, assessments, classes, selectedClassId, selectedStudentId>>

handleViewHistory(studentId) ==
    /\ selectedStudentId' = studentId
    /\ currentView' = "STUDENT_HISTORY"
    /\ UNCHANGED <<students, assessments, classes, selectedClassId>>

handleAddAssessment_StayOnForm(newAssessment, randomId) ==
    /\ assessments' = Append(assessments, [id |-> randomId,
                                           studentId |-> newAssessment.studentId,
                                           date |-> newAssessment.date,
                                           wpm |-> newAssessment.wpm,
                                           accuracy |-> newAssessment.accuracy])
    /\ UNCHANGED <<currentView, students, classes, selectedClassId, selectedStudentId>>

handleAddAssessment_Prepend(newAssessment, randomId) ==
    /\ assessments' = <<[id |-> randomId,
                         studentId |-> newAssessment.studentId,
                         date |-> newAssessment.date,
                         wpm |-> newAssessment.wpm,
                         accuracy |-> newAssessment.accuracy]>> \o assessments
    /\ currentView' = "DASHBOARD"
    /\ UNCHANGED <<students, classes, selectedClassId, selectedStudentId>>

handleAddAssessment(newAssessment, randomId) ==
    /\ assessments' = Append(assessments, [id |-> randomId,
                                           studentId |-> newAssessment.studentId,
                                           date |-> newAssessment.date,
                                           wpm |-> newAssessment.wpm,
                                           accuracy |-> newAssessment.accuracy])
    /\ currentView' = "DASHBOARD"
    /\ UNCHANGED <<students, classes, selectedClassId, selectedStudentId>>

handleNavigate_NoClear(view) ==
    /\ currentView' = view
    /\ selectedClassId' = IF view = "DASHBOARD" THEN "" ELSE selectedClassId
    /\ selectedStudentId' = IF view = "DASHBOARD" THEN "" ELSE selectedStudentId
    /\ UNCHANGED <<students, assessments, classes>>

handleNavigate_KeepsClassFilter(view) ==
    /\ currentView' = view
    /\ selectedClassId' = selectedClassId
    /\ selectedStudentId' = IF view # "STUDENT_HISTORY" THEN "" ELSE selectedStudentId
    /\ UNCHANGED <<students, assessments, classes>>

handleNavigate(view) ==
    /\ currentView' = view
    /\ selectedClassId' = IF view # "STUDENTS" THEN "" ELSE selectedClassId
    /\ selectedStudentId' = IF view # "STUDENT_HISTORY" THEN "" ELSE selectedStudentId
    /\ UNCHANGED <<students, assessments, classes>>

----------------------------------------------------------------------------
(* App: what renderContent shows *)

\* students.find(s => s.id === selectedStudentId): <<>> or <<the first match>>
FindStudent(id) ==
    LET hits == {i \in DOMAIN students : students[i].id = id}
    IN  IF hits = {} THEN <<>>
        ELSE <<students[CHOOSE i \in hits : \A j \in hits : i <= j]>>

renderContent_AllAssessments ==
    CASE currentView = "DASHBOARD" -> [component |-> "Dashboard"]
      [] currentView = "CLASSES" -> [component |-> "ClassList"]
      [] currentView = "STUDENTS" -> [component |-> "StudentList"]
      [] currentView = "STUDENT_HISTORY" ->
            LET found == FindStudent(selectedStudentId)
            IN  IF found = <<>>
                THEN [component |-> "Dashboard"]
                ELSE [component |-> "StudentHistory",
                      student |-> found[1],
                      assessments |-> assessments]
      [] currentView = "ASSESSMENT" -> [component |-> "AssessmentForm"]
      [] OTHER -> [component |-> "Dashboard"]

renderContent ==
    CASE currentView = "DASHBOARD" -> [component |-> "Dashboard"]
      [] currentView = "CLASSES" -> [component |-> "ClassList"]
      [] currentView = "STUDENTS" -> [component |-> "StudentList"]
      [] currentView = "STUDENT_HISTORY" ->
            LET found == FindStudent(selectedStudentId)
            IN  IF found = <<>>
                THEN [component |-> "Dashboard"]
                ELSE [component |-> "StudentHistory",
                      student |-> found[1],
                      assessments |-> SelectSeq(assessments,
                                         LAMBDA a : a.studentId = found[1].id)]
      [] currentView = "ASSESSMENT" -> [component |-> "AssessmentForm"]
      [] OTHER -> [component |-> "Dashboard"]

----------------------------------------------------------------------------
(* User events of the App *)

\* Sidebar: onNavigate
Navigate(view) ==
    /\ handleNavigate(view)
    /\ StudentListAfter(view, selectedClassId)
    /\ UNCHANGED <<dashVars, memo, aiVars, genVars>>

\* ClassList: onAddClass
AddClass(name, randomId) ==
    /\ currentView = "CLASSES"
    /\ StoreSize < MaxRecords
    /\ Len(classes) < MaxPerCollection
    /\ handleAddClass([name |-> name], randomId)
    /\ UNCHANGED <<listVars, dashVars, memo, aiVars, genVars>>

\* ClassList: onUpdateClass
UpdateClass(id, name) ==
    /\ currentView = "CLASSES"
    /\ handleUpdateClass([id |-> id, name |-> name])
    /\ UNCHANGED <<listVars, dashVars, memo, aiVars, genVars>>

\* ClassList: onDeleteClass, then the answer to window.confirm
DeleteClass(id, confirmed) ==
    /\ currentView = "CLASSES"
    /\ handleDeleteClass(id, confirmed)
    /\ UNCHANGED <<listVars, dashVars, memo, aiVars, genVars>>

\* ClassList: onViewStudents
ViewStudents(classId) ==
    /\ currentView = "CLASSES"
    /\ selectedClassId' = classId
    /\ currentView' = "STUDENTS"
    /\ StudentListMount(classId)
    /\ UNCHANGED <<students, assessments, classes, selectedStudentId, dashVars, memo, aiVars, genVars>>

\* StudentList: the class filter select
SetFilterClassId(value) ==
    /\ currentView = "STUDENTS"
    /\ filterClassId' = value
    /\ UNCHANGED <<appVars, isModalOpen, studentToEdit, dashVars, memo, aiVars, genVars>>

handleOpenAddModal ==
    /\ currentView = "STUDENTS"
    /\ studentToEdit' = <<>>
    /\ isModalOpen' = TRUE
    /\ UNCHANGED <<appVars, filterClassId, dashVars, memo, aiVars, genVars>>

handleOpenEditModal(student) ==
    /\ currentView = "STUDENTS"
    /\ studentToEdit' = <<student>>
    /\ isModalOpen' = TRUE
    /\ UNCHANGED <<appVars, filterClassId, dashVars, memo, aiVars, genVars>>

\* StudentModal: onClose from the cancel button.  studentToEdit is read only while
\* the modal is open and every way of opening it assigns it, so the value it keeps
\* while the modal is closed is not tracked: it is <<>> then.
ModalClose ==
    /\ currentView = "STUDENTS"
    /\ isModalOpen
    /\ isModalOpen' = FALSE
    /\ studentToEdit' = <<>>
    /\ UNCHANGED <<appVars, filterClassId, dashVars, memo, aiVars, genVars>>

\* StudentModal: the classId the form starts with
FormInitialClassId ==
    IF studentToEdit # <<>> /\ studentToEdit[1].classId # ""
    THEN studentToEdit[1].classId
    ELSE IF Len(classes) > 0 THEN classes[1].id ELSE ""

\* StudentModal handleSubmit: onSave(formData) of StudentList, then onClose.
\* The form is rendered only when there is a class; its select offers the classes.
ModalSubmit(name, classId, readingLevel, randomId) ==
    /\ currentView = "STUDENTS"
    /\ isModalOpen
    /\ Len(classes) > 0
    /\ classId \in {FormInitialClassId} \cup IdsOf(classes)
    /\ IF studentToEdit # <<>>
       THEN handleUpdateStudent([id |-> studentToEdit[1].id, name |-> name,
                                 classId |-> classId, readingLevel |-> readingLevel])
       ELSE /\ StoreSize < MaxRecords
            /\ Len(students) < MaxPerCollection
            /\ handleAddStudent([name |-> name,
                                 classId |-> IF filterClassId # "" /\ classId = ""
                                             THEN filterClassId ELSE classId,
                                 readingLevel |-> readingLevel], randomId)
    /\ isModalOpen' = FALSE
    /\ studentToEdit' = <<>>
    /\ UNCHANGED <<filterClassId, dashVars, memo, aiVars, genVars>>

\* StudentList: handleDeleteClick, then the answer to window.confirm
DeleteStudent(id, confirmed) ==
    /\ currentView = "STUDENTS"
    /\ id \in IdsOf(ListFilteredStudents)
    /\ handleDeleteStudent(id, confirmed)
    /\ UNCHANGED <<listVars, dashVars, memo, aiVars, genVars>>

\* StudentList: handleHistoryClick
ViewHistory(id) ==
    /\ currentView = "STUDENTS"
    /\ id \in IdsOf(ListFilteredStudents)
    /\ handleViewHistory(id)
    /\ StudentListAfter("STUDENT_HISTORY", "")
    /\ UNCHANGED <<dashVars, memo, aiVars, genVars>>

\* StudentHistory: onBack
HistoryBack ==
    /\ renderContent.component = "StudentHistory"
    /\ currentView' = "STUDENTS"
    /\ StudentListMount(selectedClassId)
    /\ UNCHANGED <<students, assessments, classes, selectedClassId, selectedStudentId, dashVars, memo, aiVars, genVars>>

\* AssessmentForm: onSave
SaveAssessment(studentId, date, metrics, randomId) ==
    /\ currentView = "ASSESSMENT"
    /\ StoreSize < MaxRecords
    /\ Len(assessments) < MaxPerCollection
    /\ handleAddAssessment([studentId |-> studentId, date |-> date,
                            wpm |-> metrics.wpm, accuracy |-> metrics.accuracy], randomId)
    /\ UNCHANGED <<listVars, dashVars, memo, aiVars, genVars>>

\* AssessmentForm: onCancel
CancelAssessment ==
    /\ currentView = "ASSESSMENT"
    /\ currentView' = "DASHBOARD"
    /\ UNCHANGED <<students, assessments, classes, selectedClassId, selectedStudentId,
                   listVars, dashVars, memo, aiVars, genVars>>

----------------------------------------------------------------------------
(* The App from its mock data *)

\* MOCK_CLASSES, MOCK_STUDENTS, MOCK_ASSESSMENTS of ./constants: a store whose ids
\* are unique and whose references resolve, with and without an assessment.
MockClasses == <<[id |-> "c1", name |-> "Turma A"]>>
MockStudents == <<[id |-> "s1", name |-> NameAna, classId |-> "c1", readingLevel |-> "Iniciante"]>>
MockAssessmentLists ==
    {<<>>, <<[id |-> "a1", studentId |-> "s1", date |-> Date20240301, wpm |-> 40, accuracy |-> 80]>>}

\* What the components that call the App's handlers pass to them.
\* Sidebar: the views of its menu.
SidebarViews == ViewStates
\* ClassList: "view students" is a button of a class of the list.
ViewStudentsInputs == IdsOf(classes)
\* AssessmentForm: the student is chosen among the students it is given.
AssessmentStudentInputs == IdsOf(students)
AssessmentDateInputs == {Date20240301}
AssessmentMetricsInputs == {[wpm |-> 40, accuracy |-> 80]}

Init ==
    /\ currentView = "DASHBOARD"
    /\ classes = MockClasses
    /\ students = MockStudents
    /\ assessments \in MockAssessmentLists
    /\ selectedClassId = ""
    /\ selectedStudentId = ""
    /\ filterClassId = ""
    /\ isModalOpen = FALSE
    /\ studentToEdit = <<>>
    /\ dashSelectedClassId = "all"
    /\ searchStudent = <<>>
    /\ memo = <<>>
    /\ selectedStudent = <<>>
    /\ aiAnalysis = <<>>
    /\ loadingAi = FALSE
    /\ analysisRequests = <<>>
    /\ topic = ""
    /\ level = "2 Ano Fundamental"
    /\ loading = FALSE
    /\ result = <<>>
    /\ error = ""
    /\ materialRequests = <<>>

Next ==
    \/ \E view \in SidebarViews : Navigate(view)
    \/ \E name \in ClassNames, id \in ClassIdSpace : AddClass(name, id)
    \/ \E id \in ClassIdSpace, name \in ClassNames : UpdateClass(id, name)
    \/ \E id \in IdsOf(classes), confirmed \in BOOLEAN : DeleteClass(id, confirmed)
    \/ \E id \in ViewStudentsInputs : ViewStudents(id)
    \/ \E value \in {""} \cup IdsOf(classes) : SetFilterClassId(value)
    \/ handleOpenAddModal
    \/ \E s \in Range(ListFilteredStudents) : handleOpenEditModal(s)
    \/ ModalClose
    \/ \E name \in {NameAna}, classId \in ClassIdSpace \cup {""}, readingLevel \in {"Iniciante"},
          id \in StudentIdSpace : ModalSubmit(name, classId, readingLevel, id)
    \/ \E id \in StudentIdSpace, confirmed \in BOOLEAN : DeleteStudent(id, confirmed)
    \/ \E id \in StudentIdSpace : ViewHistory(id)
    \/ HistoryBack
    \/ \E studentId \in AssessmentStudentInputs, date \in AssessmentDateInputs,
          metrics \in AssessmentMetricsInputs, id \in AssessmentIdSpace :
          SaveAssessment(studentId, date, metrics, id)
    \/ CancelAssessment

Spec == Init /\ [][Next]_vars


----------------------------------------------------------------------------
(* JavaScript strings and numbers *)

\* String.prototype.toLowerCase
ToLowerCase(str) == [i \in DOMAIN str |-> ToLowerChar(str[i])]

\* String.prototype.includes
Includes(str, sub) ==
    \E i \in 0..(Len(str) - Len(sub)) : SubSeq(str, i + 1, i + Len(sub)) = sub

\* A number as the Dashboard produces it: an integer, or NaN / Infinity from a
\* division by zero.
Num(v) == [kind |-> "int", v |-> v]
NaN == [kind |-> "NaN", v |-> 0]
Infinity == [kind |-> "Infinity", v |-> 0]

\* Math.round(a / n) for integers a >= 0 and n >= 0: the nearest integer, a half
\* going up; 0 / 0 is NaN and a / 0 is Infinity, which Math.round leaves alone.
MathFloorDiv(a, n) ==
    IF n = 0
    THEN IF a = 0 THEN NaN ELSE Infinity
    ELSE Num(a \div n)

MathRoundDiv(a, n) ==
    IF n = 0
    THEN IF a = 0 THEN NaN ELSE Infinity
    ELSE Num((2 * a + n) \div (2 * n))

\* The default comparison of Array.prototype.sort: strings by their code units.
RECURSIVE LexLess(_, _)
LexLess(a, b) ==
    IF b = <<>> THEN FALSE
    ELSE IF a = <<>> THEN TRUE
    ELSE IF Head(a) # Head(b) THEN Head(a) < Head(b)
    ELSE LexLess(Tail(a), Tail(b))

\* Array.prototype.sort() of distinct strings.
RECURSIVE SortStrings(_)
SortStrings(keys) ==
    IF keys = <<>> THEN <<>>
    ELSE LET least == CHOOSE i \in DOMAIN keys :
                          \A j \in DOMAIN keys : j = i \/ LexLess(keys[i], keys[j])
             rest == [j \in 1..(Len(keys) - 1) |-> IF j < least THEN keys[j] ELSE keys[j + 1]]
         IN  <<keys[least]>> \o SortStrings(rest)

\* dateKey.split('-')
RECURSIVE SplitDash(_)
SplitDash(key) ==
    LET dashes == {i \in DOMAIN key : key[i] = Dash}
    IN  IF dashes = {} THEN <<key>>
        ELSE LET first == CHOOSE i \in dashes : \A j \in dashes : i <= j
             IN  <<SubSeq(key, 1, first - 1)>> \o SplitDash(SubSeq(key, first + 1, Len(key)))

\* Number(digits) of a string of digits
RECURSIVE ToNumber(_)
ToNumber(digits) ==
    IF digits = <<>> THEN 0
    ELSE 10 * ToNumber(SubSeq(digits, 1, Len(digits) - 1)) + digits[Len(digits)]

\* new Date(year, month - 1, day).toLocaleDateString('pt-BR', 2-digit day and month)
\* of a calendar day: "dd/mm", as the pair of numbers it shows.
DisplayDate(dateKey) ==
    LET fields == SplitDash(dateKey)
        parts == [i \in DOMAIN fields |-> ToNumber(fields[i])]
    IN  [day |-> parts[3], month |-> parts[2]]

----------------------------------------------------------------------------
(* Dashboard: derived data *)

filteredStudentsOf(studs, classSel, search) ==
    LET searchLower == ToLowerCase(search)
        Matches(student) ==
            LET matchesClass == classSel = "all" \/ student.classId = classSel
                matchesSearch == Includes(ToLowerCase(student.name), searchLower)
            IN  matchesClass /\ matchesSearch
    IN  SelectSeq(studs, Matches)

filteredAssessmentsOf_AllStudents(assess, fStudents) ==
    LET studentIds == {students[i].id : i \in DOMAIN students}
        Has(a) == a.studentId \in studentIds
    IN  SelectSeq(assess, Has)

filteredAssessmentsOf_KeepsOrphans(assess, fStudents) ==
    IF Len(fStudents) = Len(students)
    THEN assess
    ELSE LET studentIds == {fStudents[i].id : i \in DOMAIN fStudents}
             Has(a) == a.studentId \in studentIds
         IN  SelectSeq(assess, Has)

filteredAssessmentsOf(assess, fStudents) ==
    LET studentIds == {fStudents[i].id : i \in DOMAIN fStudents}
        Has(a) == a.studentId \in studentIds
    IN  SelectSeq(assess, Has)

\* filteredAssessments.reduce(...) of stats: the totals after the first k elements
RECURSIVE Totals(_, _)
Totals(fAssessments, k) ==
    IF k = 0 THEN [wpm |-> 0, accuracy |-> 0]
    ELSE LET acc == Totals(fAssessments, k - 1)
             curr == fAssessments[k]
         IN  [wpm |-> acc.wpm + curr.wpm, accuracy |-> acc.accuracy + curr.accuracy]

statsOf_NoEmptyGuard(fStudents, fAssessments) ==
    LET totalStudents == Len(fStudents)
        totalAssessments == Len(fAssessments)
        totals == Totals(fAssessments, Len(fAssessments))
    IN  [totalStudents |-> totalStudents, totalAssessments |-> totalAssessments,
         avgWPM |-> MathRoundDiv(totals.wpm, totalAssessments),
         avgAccuracy |-> MathRoundDiv(totals.accuracy, totalAssessments)]

statsOf(fStudents, fAssessments) ==
    LET totalStudents == Len(fStudents)
        totalAssessments == Len(fAssessments)
    IN  IF totalAssessments = 0
        THEN [totalStudents |-> totalStudents, totalAssessments |-> totalAssessments,
              avgWPM |-> Num(0), avgAccuracy |-> Num(0)]
        ELSE LET totals == Totals(fAssessments, Len(fAssessments))
             IN  [totalStudents |-> totalStudents, totalAssessments |-> totalAssessments,
                  avgWPM |-> MathRoundDiv(totals.wpm, totalAssessments),
                  avgAccuracy |-> MathRoundDiv(totals.accuracy, totalAssessments)]

\* filteredAssessments.reduce(...) of chartData: the groups after the first k
\* elements, in the order their keys were first seen (the order of Object.keys).
RECURSIVE Grouped(_, _)
Grouped(fAssessments, k) ==
    IF k = 0 THEN <<>>
    ELSE LET acc == Grouped(fAssessments, k - 1)
             curr == fAssessments[k]
             hit == {i \in DOMAIN acc : acc[i].dateKey = curr.date}
         IN  IF hit = {}
             THEN Append(acc, [dateKey |-> curr.date, wpmSum |-> curr.wpm, count |-> 1])
             ELSE [i \in DOMAIN acc |->
                      IF i \in hit
                      THEN [acc[i] EXCEPT !.wpmSum = @ + curr.wpm, !.count = @ + 1]
                      ELSE acc[i]]

chartKeysOf_Unsorted(fAssessments) ==
    LET grouped == Grouped(fAssessments, Len(fAssessments))
    IN  [i \in DOMAIN grouped |-> grouped[i].dateKey]

\* Object.keys(grouped).sort()
chartKeysOf(fAssessments) ==
    LET grouped == Grouped(fAssessments, Len(fAssessments))
    IN  SortStrings([i \in DOMAIN grouped |-> grouped[i].dateKey])

chartDataOf(fAssessments) ==
    LET grouped == Grouped(fAssessments, Len(fAssessments))
        Entry(dateKey) ==
            LET item == grouped[CHOOSE i \in DOMAIN grouped : grouped[i].dateKey = dateKey]
            IN  [date |-> DisplayDate(dateKey),
                 avgWPM |-> MathRoundDiv(item.wpmSum, item.count)]
        keys == chartKeysOf(fAssessments)
    IN  [k \in DOMAIN keys |-> Entry(keys[k])]

\* filteredStudents.reduce(...) of levelData: the counts after the first k
\* elements, in the order their keys were first seen.  Object.keys gives string
\* keys in that order; the reading levels are not written as integers, which
\* Object.keys would put first.
RECURSIVE Counts(_, _)
Counts(fStudents, k) ==
    IF k = 0 THEN <<>>
    ELSE LET acc == Counts(fStudents, k - 1)
             curr == fStudents[k]
             hit == {i \in DOMAIN acc : acc[i].name = curr.readingLevel}
         IN  IF hit = {}
             THEN Append(acc, [name |-> curr.readingLevel, count |-> 1])
             ELSE [i \in DOMAIN acc |->
                      IF i \in hit THEN [acc[i] EXCEPT !.count = @ + 1] ELSE acc[i]]

levelDataOf_Presence(fStudents) ==
    LET counts == Counts(fStudents, Len(fStudents))
    IN  [i \in DOMAIN counts |-> [name |-> counts[i].name, count |-> 1]]

\* Object.keys(counts).map(key => ({ name: key, count: counts[key] }))
levelDataOf(fStudents) ==
    LET counts == Counts(fStudents, Len(fStudents))
    IN  [i \in DOMAIN counts |-> [name |-> counts[i].name, count |-> counts[i].count]]

\* The Dashboard's values for its current props and filter
filteredStudents == filteredStudentsOf(students, dashSelectedClassId, searchStudent)
filteredAssessments == filteredAssessmentsOf(assessments, filteredStudents)
stats == statsOf(filteredStudents, filteredAssessments)
chartKeys == chartKeysOf(filteredAssessments)
chartData == chartDataOf(filteredAssessments)
levelData == levelDataOf(filteredStudents)

----------------------------------------------------------------------------
(* Dashboard: the useMemo cells *)

\* The first render: every cell is computed.
MemoMount(studs, assess, classSel, search) ==
    LET fs == filteredStudentsOf(studs, classSel, search)
        fa == filteredAssessmentsOf(assess, fs)
    IN  [filteredStudents |-> fs,
         filteredAssessments |-> fa,
         stats |-> statsOf(fs, fa),
         chartData |-> chartDataOf(fa),
         levelData |-> levelDataOf(fs)]

\* Whether a dependency of a cell differs (Object.is) from the one of the render
\* before.  An array differs when it is another array: the students and
\* assessments props when the store has set them (newStudents, newAssessments),
\* filteredStudents and filteredAssessments when their cell was computed again
\* (fsComputed, faComputed).  Strings and numbers differ by value.
filteredStudentsDepsChanged(newStudents) ==
    \/ newStudents
    \/ dashSelectedClassId' # dashSelectedClassId
    \/ searchStudent' # searchStudent

filteredAssessmentsDepsChanged_WithoutFilteredStudents(newAssessments, fsComputed) ==
    newAssessments

filteredAssessmentsDepsChanged(newAssessments, fsComputed) ==
    newAssessments \/ fsComputed

statsDepsChanged(lengthBefore, lengthNow, faComputed) ==
    lengthNow # lengthBefore \/ faComputed

chartDataDepsChanged(faComputed) == faComputed

levelDataDepsChanged(fsComputed) == fsComputed

\* A render after the first, in the step that changed the Dashboard's state or
\* props: a cell whose dependencies did not change keeps its value.  The cells
\* are followed from the first render on where memo starts as MemoMount; where
\* memo starts as <<>> they are not followed and stay <<>>.
Rerender(newStudents, newAssessments) ==
    IF memo = <<>> THEN memo' = <<>> ELSE
    LET fsComputed == filteredStudentsDepsChanged(newStudents)
        fs == IF fsComputed
              THEN filteredStudentsOf(students', dashSelectedClassId', searchStudent')
              ELSE memo.filteredStudents
        faComputed == filteredAssessmentsDepsChanged(newAssessments, fsComputed)
        fa == IF faComputed THEN filteredAssessmentsOf(assessments', fs)
              ELSE memo.filteredAssessments
    IN  memo' = [filteredStudents |-> fs,
                 filteredAssessments |-> fa,
                 stats |-> IF statsDepsChanged(Len(memo.filteredStudents), Len(fs), faComputed)
                           THEN statsOf(fs, fa) ELSE memo.stats,
                 chartData |-> IF chartDataDepsChanged(faComputed)
                               THEN chartDataOf(fa) ELSE memo.chartData,
                 levelData |-> IF levelDataDepsChanged(fsComputed)
                               THEN levelDataOf(fs) ELSE memo.levelData]

----------------------------------------------------------------------------
(* Dashboard: user events *)

SearchInputs == {<<>>, <<"a">>, <<"A", "N">>, <<"i", "a">>}

\* the class select: onChange
DashSetSelectedClassId(value) ==
    /\ renderContent.component = "Dashboard"
    /\ dashSelectedClassId' = value
    /\ UNCHANGED <<appVars, listVars, searchStudent, aiVars, genVars>>
    /\ Rerender(FALSE, FALSE)

\* the search input: onChange
DashSetSearchStudent(value) ==
    /\ renderContent.component = "Dashboard"
    /\ searchStudent' = value
    /\ UNCHANGED <<appVars, listVars, dashSelectedClassId, aiVars, genVars>>
    /\ Rerender(FALSE, FALSE)

----------------------------------------------------------------------------
(* The Dashboard over bounded props: every student list with every placement of  *)
(* the assessments among the students (and a student who is not in the list),    *)
(* a fixed pair of students with every assessment list, and every list of        *)
(* students of one class with their names and reading levels.                    *)

DashClasses == <<[id |-> "c1", name |-> "Turma A"], [id |-> "c2", name |-> "Turma B"]>>

PositionalId(i) == <<"a1", "a2", "a3", "a4", "a5", "a6">>[i]

FilterStudentRecs ==
    [id : StudentIdSpace, name : Names, classId : {"", "c1"}, readingLevel : {"Iniciante"}]

FilterAssessmentRecs ==
    [studentId : StudentIdSpace \cup {"s3"}, date : {Date20240301}, wpm : {40}, accuracy : {80}]

AggStudents ==
    <<[id |-> "s1", name |-> NameAna, classId |-> "c1", readingLevel |-> "Iniciante"],
      [id |-> "s2", name |-> NameBia, classId |-> "c2", readingLevel |-> "Fluente"]>>

AggAssessmentRecs ==
    {[studentId |-> sid, date |-> d, wpm |-> m.wpm, accuracy |-> m.accuracy] :
        sid \in StudentIdSpace, d \in Dates, m \in Metrics}

LevelStudentRecs == [name : Names, classId : {"c1"}, readingLevel : Levels]

PositionalStudentId(i) == <<"s1", "s2", "s3", "s4">>[i]

WithStudentIds(recs) ==
    [i \in DOMAIN recs |-> [id |-> PositionalStudentId(i), name |-> recs[i].name,
                            classId |-> recs[i].classId,
                            readingLevel |-> recs[i].readingLevel]]

WithIds(recs) ==
    [i \in DOMAIN recs |-> [id |-> PositionalId(i), studentId |-> recs[i].studentId,
                            date |-> recs[i].date, wpm |-> recs[i].wpm,
                            accuracy |-> recs[i].accuracy]]

InitDash ==
    /\ currentView = "DASHBOARD"
    /\ classes = DashClasses
    /\ \/ /\ students \in SeqsUpTo(FilterStudentRecs, MaxFilterStudents)
          /\ \E recs \in SeqsUpTo(FilterAssessmentRecs, MaxFilterAssessments) :
                assessments = WithIds(recs)
       \/ /\ students = AggStudents
          /\ \E recs \in SeqsUpTo(AggAssessmentRecs, MaxAggAssessments) :
                assessments = WithIds(recs)
       \/ /\ \E recs \in SeqsUpTo(LevelStudentRecs, MaxLevelStudents) :
                students = WithStudentIds(recs)
          /\ assessments = <<>>
    /\ selectedClassId = ""
    /\ selectedStudentId = ""
    /\ filterClassId = ""
    /\ isModalOpen = FALSE
    /\ studentToEdit = <<>>
    /\ dashSelectedClassId = "all"
    /\ searchStudent = <<>>
    /\ memo = <<>>
    /\ selectedStudent = <<>>
    /\ aiAnalysis = <<>>
    /\ loadingAi = FALSE
    /\ analysisRequests = <<>>
    /\ topic = ""
    /\ level = "2 Ano Fundamental"
    /\ loading = FALSE
    /\ result = <<>>
    /\ error = ""
    /\ materialRequests = <<>>

NextDash ==
    \/ \E value \in {"all"} \cup IdsOf(classes) : DashSetSelectedClassId(value)
    \/ \E value \in SearchInputs : DashSetSearchStudent(value)

SpecDash == InitDash /\ [][NextDash]_vars


----------------------------------------------------------------------------
(* The Dashboard with its useMemo cells, rendered again by its parent with new  *)
(* students or assessments arrays (every setter of the store builds a new array). *)

\* Student lists the parent may pass: the two students, one of them deleted, one
\* of them moved to the other class, one of them with another reading level.
MemoStudentLists ==
    {AggStudents,
     <<AggStudents[1]>>,
     <<AggStudents[2]>>,
     <<AggStudents[1], [AggStudents[2] EXCEPT !.classId = "c1"]>>,
     <<[AggStudents[1] EXCEPT !.readingLevel = "Fluente"], AggStudents[2]>>}

MemoAssessmentRecs ==
    {[studentId |-> sid, date |-> d, wpm |-> 40, accuracy |-> 80] :
        sid \in StudentIdSpace, d \in {Date20240301, Date20240302}}

\* the parent renders the Dashboard with another students array
DashReceiveStudents(newStudents) ==
    /\ renderContent.component = "Dashboard"
    /\ students' = newStudents
    /\ UNCHANGED <<currentView, assessments, classes, selectedClassId, selectedStudentId,
                   listVars, dashVars, aiVars, genVars>>
    /\ Rerender(TRUE, FALSE)

\* the parent renders the Dashboard with the assessments array of an added assessment
DashReceiveAssessment(rec) ==
    /\ renderContent.component = "Dashboard"
    /\ Len(assessments) < MaxMemoAssessments
    /\ assessments' = WithIds(Append(assessments, rec))
    /\ UNCHANGED <<currentView, students, classes, selectedClassId, selectedStudentId,
                   listVars, dashVars, aiVars, genVars>>
    /\ Rerender(FALSE, TRUE)

InitMemo ==
    /\ currentView = "DASHBOARD"
    /\ classes = DashClasses
    /\ students = AggStudents
    /\ assessments = <<>>
    /\ selectedClassId = ""
    /\ selectedStudentId = ""
    /\ filterClassId = ""
    /\ isModalOpen = FALSE
    /\ studentToEdit = <<>>
    /\ dashSelectedClassId = "all"
    /\ searchStudent = <<>>
    /\ memo = MemoMount(students, assessments, dashSelectedClassId, searchStudent)
    /\ selectedStudent = <<>>
    /\ aiAnalysis = <<>>
    /\ loadingAi = FALSE
    /\ analysisRequests = <<>>
    /\ topic = ""
    /\ level = "2 Ano Fundamental"
    /\ loading = FALSE
    /\ result = <<>>
    /\ error = ""
    /\ materialRequests = <<>>

NextMemo ==
    \/ \E value \in {"all"} \cup IdsOf(classes) : DashSetSelectedClassId(value)
    \/ \E value \in SearchInputs : DashSetSearchStudent(value)
    \/ \E newStudents \in MemoStudentLists : DashReceiveStudents(newStudents)
    \/ \E rec \in MemoAssessmentRecs : DashReceiveAssessment(rec)

SpecMemo == InitMemo /\ [][NextMemo]_vars

----------------------------------------------------------------------------
(* The Dashboard over assessments whose date is any string of a year, a month    *)
(* and a day: Assessment.date is a string, and neither handleAddAssessment nor   *)
(* the Dashboard looks at how it is written.                                     *)

\* "2024-3-1", "2024-03-02" and "2024-10-01"
Date2024_3_1 == <<2, 0, 2, 4, Dash, 3, Dash, 1>>
Date20241001 == <<2, 0, 2, 4, Dash, 1, 0, Dash, 0, 1>>
WrittenDates == {Date2024_3_1, Date20240302, Date20241001}

WrittenDateRecs ==
    {[studentId |-> sid, date |-> d, wpm |-> 40, accuracy |-> 80] :
        sid \in StudentIdSpace, d \in WrittenDates}

InitDates ==
    /\ currentView = "DASHBOARD"
    /\ classes = DashClasses
    /\ students = AggStudents
    /\ \E recs \in SeqsUpTo(WrittenDateRecs, MaxDateAssessments) :
          assessments = WithIds(recs)
    /\ selectedClassId = ""
    /\ selectedStudentId = ""
    /\ filterClassId = ""
    /\ isModalOpen = FALSE
    /\ studentToEdit = <<>>
    /\ dashSelectedClassId = "all"
    /\ searchStudent = <<>>
    /\ memo = <<>>
    /\ selectedStudent = <<>>
    /\ aiAnalysis = <<>>
    /\ loadingAi = FALSE
    /\ analysisRequests = <<>>
    /\ topic = ""
    /\ level = "2 Ano Fundamental"
    /\ loading = FALSE
    /\ result = <<>>
    /\ error = ""
    /\ materialRequests = <<>>

SpecDates == InitDates /\ [][NextDash]_vars

----------------------------------------------------------------------------
(* geminiService: generateStudentAnalysis *)

\* Days from 1970-01-01 to the calendar day (year, month, day).
DaysFromCivil(year, month, day) ==
    LET y == IF month <= 2 THEN year - 1 ELSE year
        era == y \div 400
        yoe == y - era * 400
        mp == IF month > 2 THEN month - 3 ELSE month + 9
        doy == (153 * mp + 2) \div 5 + day - 1
        doe == yoe * 365 + yoe \div 4 - yoe \div 100 + doy
    IN  era * 146097 + doe - 719468

\* new Date(date).getTime() of a date-only string "YYYY-MM-DD": UTC midnight of
\* the day, counted here in days (the milliseconds are 86400000 times as many).
DateGetTime(date) ==
    LET fields == SplitDash(date)
    IN  DaysFromCivil(ToNumber(fields[1]), ToNumber(fields[2]), ToNumber(fields[3]))

\* assessments.sort((a, b) => new Date(b.date).getTime() - new Date(a.date).getTime()):
\* latest first; the sort is stable, elements of one date keep their order.
RECURSIVE SortTimedLatestFirst(_)
SortTimedLatestFirst(timed) ==
    IF timed = <<>> THEN <<>>
    ELSE LET first == CHOOSE i \in DOMAIN timed :
                          /\ \A j \in DOMAIN timed : timed[i].time >= timed[j].time
                          /\ \A j \in 1..(i - 1) : timed[j].time # timed[i].time
             rest == [j \in 1..(Len(timed) - 1) |-> IF j < first THEN timed[j] ELSE timed[j + 1]]
         IN  <<timed[first]>> \o SortTimedLatestFirst(rest)

SortLatestFirst(assess) ==
    LET timed == [i \in DOMAIN assess |->
                     [time |-> DateGetTime(assess[i].date), element |-> assess[i]]]
        sorted == SortTimedLatestFirst(timed)
    IN  [i \in DOMAIN sorted |-> sorted[i].element]

recentHistoryOf_Unsorted(studentAssessments) ==
    SubSeq(studentAssessments, 1, IF Len(studentAssessments) < 3 THEN Len(studentAssessments) ELSE 3)

\* recentHistory before it is written out: the sorted array cut to 3 elements.
recentHistoryOf(studentAssessments) ==
    LET sorted == SortLatestFirst(studentAssessments)
    IN  SubSeq(sorted, 1, IF Len(sorted) < 3 THEN Len(sorted) ELSE 3)

\* What a call can come back with: response.text, the text for an empty response,
\* or the text of the catch branch.
AnalysisOutcomes == {"text", "unavailable", "error"}

----------------------------------------------------------------------------
(* StudentList: the AI report *)

GenerateReport_CancelsEarlier(student) ==
    /\ currentView = "STUDENTS"
    /\ Len(analysisRequests) < MaxRequests
    /\ student \in Range(ListFilteredStudents)
    /\ loadingAi' = TRUE
    /\ aiAnalysis' = <<>>
    /\ selectedStudent' = <<student>>
    /\ LET studentAssessments == SelectSeq(assessments, LAMBDA a : a.studentId = student.id)
       IN  analysisRequests' = <<[student |-> student.id,
                                  recentHistory |-> recentHistoryOf(studentAssessments)]>>
    /\ UNCHANGED <<appVars, listVars, dashVars, memo, genVars>>

\* handleGenerateReport up to its await: the call is made with the student and
\* that student's assessments out of the assessments prop.
GenerateReport(student) ==
    /\ currentView = "STUDENTS"
    /\ Len(analysisRequests) < MaxRequests
    /\ student \in Range(ListFilteredStudents)
    /\ loadingAi' = TRUE
    /\ aiAnalysis' = <<>>
    /\ selectedStudent' = <<student>>
    /\ LET studentAssessments == SelectSeq(assessments, LAMBDA a : a.studentId = student.id)
       IN  analysisRequests' = Append(analysisRequests,
                                      [student |-> student.id,
                                       recentHistory |-> recentHistoryOf(studentAssessments)])
    /\ UNCHANGED <<appVars, listVars, dashVars, memo, genVars>>

\* handleGenerateReport after its await, for the pending call at position i: the
\* report is the answer to the call for that call's student.
AnalysisReturns(i, outcome) ==
    /\ i \in DOMAIN analysisRequests
    /\ aiAnalysis' = <<[about |-> analysisRequests[i].student, outcome |-> outcome]>>
    /\ loadingAi' = FALSE
    /\ analysisRequests' = [j \in 1..(Len(analysisRequests) - 1) |->
                               IF j < i THEN analysisRequests[j] ELSE analysisRequests[j + 1]]
    /\ UNCHANGED <<appVars, listVars, dashVars, memo, selectedStudent, genVars>>

closeModal ==
    /\ currentView = "STUDENTS"
    /\ selectedStudent # <<>>
    /\ selectedStudent' = <<>>
    /\ aiAnalysis' = <<>>
    /\ UNCHANGED <<appVars, listVars, dashVars, memo, loadingAi, analysisRequests, genVars>>

----------------------------------------------------------------------------
(* The StudentList's AI report over bounded props: two students, an assessment   *)
(* of the second on the latest day, then every list of assessments of the first  *)
(* on three days.                                                               *)

ReportAssessmentRecs ==
    {[studentId |-> "s1", date |-> d, wpm |-> 40, accuracy |-> 80] : d \in Dates}

ReportOtherRec == [studentId |-> "s2", date |-> Date20240302, wpm |-> 61, accuracy |-> 85]

InitAI ==
    /\ currentView = "STUDENTS"
    /\ classes = DashClasses
    /\ students = AggStudents
    /\ \E recs \in SeqsUpTo(ReportAssessmentRecs, MaxReportAssessments) :
          assessments = WithIds(<<ReportOtherRec>> \o recs)
    /\ selectedClassId = ""
    /\ selectedStudentId = ""
    /\ filterClassId = ""
    /\ isModalOpen = FALSE
    /\ studentToEdit = <<>>
    /\ dashSelectedClassId = "all"
    /\ searchStudent = <<>>
    /\ memo = <<>>
    /\ selectedStudent = <<>>
    /\ aiAnalysis = <<>>
    /\ loadingAi = FALSE
    /\ analysisRequests = <<>>
    /\ topic = ""
    /\ level = "2 Ano Fundamental"
    /\ loading = FALSE
    /\ result = <<>>
    /\ error = ""
    /\ materialRequests = <<>>

NextAI ==
    \/ \E value \in {""} \cup IdsOf(classes) : SetFilterClassId(value)
    \/ \E student \in Range(students) : GenerateReport(student)
    \/ \E i \in 1..MaxRequests, outcome \in AnalysisOutcomes : AnalysisReturns(i, outcome)
    \/ closeModal

SpecAI == InitAI /\ [][NextAI]_vars

----------------------------------------------------------------------------
(* TextGenerator *)

SchoolLevels == {"1 Ano Fundamental", "2 Ano Fundamental", "3 Ano Fundamental",
                 "4 Ano Fundamental", "5 Ano Fundamental"}

TopicInputs == {"", "Dinossauros", "Amizade"}

\* What a call of generateReadingMaterial can come back with: the parsed JSON of
\* the response, the parsed JSON null (data.questions then throws inside the try
\* of handleGenerate), or an exception (no response, an empty one, text that is
\* not JSON).
MaterialOutcomes == {"data", "null", "throws"}

ErrorMessage == "Erro ao gerar texto. Tente novamente ou verifique sua API Key."

\* the topic input: onChange
SetTopic(value) ==
    /\ topic' = value
    /\ UNCHANGED <<appVars, listVars, dashVars, memo, aiVars,
                   level, loading, result, error, materialRequests>>

\* the level select: onChange
SetLevel(value) ==
    /\ level' = value
    /\ UNCHANGED <<appVars, listVars, dashVars, memo, aiVars,
                   topic, loading, result, error, materialRequests>>

handleGenerate_ButtonEnabled ==
    /\ topic # ""
    /\ Len(materialRequests) < MaxMaterialRequests
    /\ loading' = TRUE
    /\ error' = ""
    /\ result' = <<>>
    /\ materialRequests' = Append(materialRequests, [level |-> level, topic |-> topic])
    /\ UNCHANGED <<appVars, listVars, dashVars, memo, aiVars, topic, level>>

handleGenerate_KeepsError ==
    /\ ~loading
    /\ topic # ""
    /\ Len(materialRequests) < MaxMaterialRequests
    /\ loading' = TRUE
    /\ result' = <<>>
    /\ materialRequests' = Append(materialRequests, [level |-> level, topic |-> topic])
    /\ UNCHANGED <<appVars, listVars, dashVars, memo, aiVars, topic, level, error>>

\* The form is submitted, handleGenerate up to its await.  The submit button is
\* disabled while loading, and with it the submission by the Enter key; the topic
\* input is required.
handleGenerate ==
    /\ ~loading
    /\ topic # ""
    /\ Len(materialRequests) < MaxMaterialRequests
    /\ loading' = TRUE
    /\ error' = ""
    /\ result' = <<>>
    /\ materialRequests' = Append(materialRequests, [level |-> level, topic |-> topic])
    /\ UNCHANGED <<appVars, listVars, dashVars, memo, aiVars, topic, level>>

\* handleGenerate after its await, for the pending call at position i: level is
\* the level of the render that made the call.
MaterialReturns(i, outcome) ==
    /\ i \in DOMAIN materialRequests
    /\ IF outcome = "data"
       THEN /\ result' = <<[material |-> [level |-> materialRequests[i].level,
                                          topic |-> materialRequests[i].topic],
                            level |-> materialRequests[i].level]>>
            /\ error' = error
       ELSE /\ error' = ErrorMessage
            /\ result' = result
    /\ loading' = FALSE
    /\ materialRequests' = [j \in 1..(Len(materialRequests) - 1) |->
                               IF j < i THEN materialRequests[j] ELSE materialRequests[j + 1]]
    /\ UNCHANGED <<appVars, listVars, dashVars, memo, aiVars, topic, level>>

InitGen ==
    /\ currentView = "DASHBOARD"
    /\ classes = MockClasses
    /\ students = MockStudents
    /\ assessments = <<>>
    /\ selectedClassId = ""
    /\ selectedStudentId = ""
    /\ filterClassId = ""
    /\ isModalOpen = FALSE
    /\ studentToEdit = <<>>
    /\ dashSelectedClassId = "all"
    /\ searchStudent = <<>>
    /\ memo = <<>>
    /\ selectedStudent = <<>>
    /\ aiAnalysis = <<>>
    /\ loadingAi = FALSE
    /\ analysisRequests = <<>>
    /\ topic = ""
    /\ level = "2 Ano Fundamental"
    /\ loading = FALSE
    /\ result = <<>>
    /\ error = ""
    /\ materialRequests = <<>>

NextGen ==
    \/ \E value \in TopicInputs : SetTopic(value)
    \/ \E value \in SchoolLevels : SetLevel(value)
    \/ handleGenerate
    \/ \E i \in 1..MaxMaterialRequests, outcome \in MaterialOutcomes : MaterialReturns(i, outcome)

SpecGen == InitGen /\ [][NextGen]_vars

----------------------------------------------------------------------------
(* Properties of the Dashboard's derived data (checked under SpecDash) *)

\* The positions of assessment collection assess that belong to a student of fs
FilteredIdx(assess, fs) ==
    {i \in DOMAIN assess : \E j \in DOMAIN fs : fs[j].id = assess[i].studentId}

RECURSIVE SumWpm(_, _)
SumWpm(assess, idx) ==
    IF idx = {} THEN 0
    ELSE LET i == CHOOSE i \in idx : TRUE
         IN  assess[i].wpm + SumWpm(assess, idx \ {i})

RECURSIVE SumAccuracy(_, _)
SumAccuracy(assess, idx) ==
    IF idx = {} THEN 0
    ELSE LET i == CHOOSE i \in idx : TRUE
         IN  assess[i].accuracy + SumAccuracy(assess, idx \ {i})

\* r is sum / count rounded to the nearest integer, a half going up:
\* r <= sum / count + 1/2 < r + 1
IsRounded(r, sum, count) ==
    /\ r.kind = "int"
    /\ 2 * r.v * count <= 2 * sum + count
    /\ 2 * sum + count < 2 * (r.v + 1) * count

\* C1: filteredAssessments holds exactly the assessments of the full collection
\* whose studentId is the id of a student in filteredStudents: none of another
\* student, none of a filtered student left out, each once.
C1_FilteredAssessmentsExact ==
    LET fs == filteredStudents
        fa == filteredAssessments
        idx == FilteredIdx(assessments, fs)
    IN  /\ \A k \in DOMAIN fa :
              /\ fa[k] \in Range(assessments)
              /\ \E j \in DOMAIN fs : fs[j].id = fa[k].studentId
        /\ \A i \in idx : assessments[i] \in Range(fa)
        /\ Len(fa) = Cardinality(idx)

\* A filter that keeps one student's assessment and drops another student's.
C1_Witness ==
    LET fa == filteredAssessments
    IN  /\ dashSelectedClassId # "all" \/ searchStudent # <<>>
        /\ \E i, j \in DOMAIN assessments :
              /\ assessments[i] \in Range(fa)
              /\ assessments[j] \notin Range(fa)
              /\ assessments[j].studentId \in IdsOf(students)

\* C2: with filtered assessments, avgWPM and avgAccuracy are the sums of wpm and
\* of accuracy over the filtered assessments divided by their count and rounded,
\* and the two counts are the sizes of filteredStudents and filteredAssessments.
C2_AveragesRounded ==
    LET fs == filteredStudents
        fa == filteredAssessments
        st == stats
        idx == FilteredIdx(assessments, fs)
    IN  fa # <<>> =>
            /\ IsRounded(st.avgWPM, SumWpm(assessments, idx), Cardinality(idx))
            /\ IsRounded(st.avgAccuracy, SumAccuracy(assessments, idx), Cardinality(idx))
            /\ st.totalStudents = Len(fs)
            /\ st.totalAssessments = Len(fa)

\* Two filtered assessments out of three whose mean wpm is 50.5 and shows as 51.
C2_Witness ==
    LET st == stats
    IN  /\ Len(filteredAssessments) = 2
        /\ Len(assessments) = 3
        /\ SumWpm(assessments, FilteredIdx(assessments, filteredStudents)) = 101
        /\ st.avgWPM = Num(51)
        /\ st.avgAccuracy = Num(83)

\* C3: without filtered assessments the statistics are avgWPM = 0, avgAccuracy = 0
\* and totalAssessments = 0, numbers and not NaN.
C3_EmptyStatsAreZero ==
    LET st == stats
    IN  filteredAssessments = <<>> =>
            /\ st.avgWPM = Num(0)
            /\ st.avgAccuracy = Num(0)
            /\ st.totalAssessments = 0

\* The class filter matches no student although the store holds students and
\* assessments.
C3_Witness ==
    /\ dashSelectedClassId = "c2"
    /\ students # <<>>
    /\ assessments # <<>>
    /\ filteredStudents = <<>>
    /\ filteredAssessments = <<>>
    /\ stats.totalStudents = 0

\* The calendar day of a date key "YYYY-MM-DD" as a number that grows with the day.
DayNumber(key) ==
    (key[1] * 1000 + key[2] * 100 + key[3] * 10 + key[4]) * 372
        + (key[6] * 10 + key[7]) * 31 + (key[9] * 10 + key[10])

\* C4: chartData has one entry per distinct date of filteredAssessments, so as many
\* entries as distinct dates and no more than filtered assessments; the entries
\* are in ascending order of their dates, and each avgWPM is the rounded mean of
\* the wpm of the assessments of its date.
C4_ChartOnePerDateAscending ==
    LET fa == filteredAssessments
        keys == chartKeysOf(fa)
        data == chartDataOf(fa)
        dates == {fa[i].date : i \in DOMAIN fa}
        DateIdx(key) == {i \in DOMAIN fa : fa[i].date = key}
    IN  /\ Len(data) = Cardinality(dates)
        /\ Len(data) <= Len(fa)
        /\ Len(keys) = Len(data)
        /\ Range(keys) = dates
        /\ \A k \in 1..(Len(keys) - 1) : DayNumber(keys[k]) < DayNumber(keys[k + 1])
        /\ \A k \in DOMAIN data :
              IsRounded(data[k].avgWPM, SumWpm(fa, DateIdx(keys[k])),
                        Cardinality(DateIdx(keys[k])))

\* Three filtered assessments, the later day first and two on one day with a mean
\* of 50.5: two entries, the earlier day first.
C4_Witness ==
    LET fa == filteredAssessments
        data == chartDataOf(fa)
    IN  /\ Len(fa) = 3
        /\ Len(data) = 2
        /\ DayNumber(fa[1].date) > DayNumber(fa[2].date)
        /\ \E k \in DOMAIN data : data[k].avgWPM = Num(51)
        /\ data[1].date = [day |-> 31, month |-> 12]

\* C14: levelData has one pair per reading level found among filteredStudents and
\* no other, the pairs in the order in which their levels first occur in
\* filteredStudents; the count of a pair is the number of filtered students of its
\* level, so it is at least 1 and the counts add up to the number of filtered
\* students.
C14_LevelDistribution ==
    LET fs == filteredStudents
        ld == levelDataOf(fs)
        Of(name) == {i \in DOMAIN fs : fs[i].readingLevel = name}
        First(name) == CHOOSE i \in Of(name) : \A j \in Of(name) : i <= j
        RECURSIVE SumCounts(_)
        SumCounts(k) == IF k = 0 THEN 0 ELSE ld[k].count + SumCounts(k - 1)
    IN  /\ \A k, l \in DOMAIN ld : ld[k].name = ld[l].name => k = l
        /\ {ld[k].name : k \in DOMAIN ld} = {fs[i].readingLevel : i \in DOMAIN fs}
        /\ \A k \in DOMAIN ld : ld[k].count = Cardinality(Of(ld[k].name)) /\ ld[k].count >= 1
        /\ \A k, l \in DOMAIN ld : k < l => First(ld[k].name) < First(ld[l].name)
        /\ SumCounts(Len(ld)) = Len(fs)

\* A search keeps two of three students; the first and the last of the store are
\* of one level and the one between them, of another level, is filtered out.
C14_Witness ==
    /\ Len(students) = 3
    /\ searchStudent # <<>>
    /\ Len(filteredStudents) = 2
    /\ students[1].readingLevel = "Fluente"
    /\ students[2].readingLevel = "Iniciante"
    /\ levelData = <<[name |-> "Fluente", count |-> 2]>>


\* The calendar day that a date string of a year, a month and a day names,
\* however its numbers are written, as a number that grows with the day.
CalendarDay(key) ==
    LET fields == SplitDash(key)
    IN  ToNumber(fields[1]) * 372 + ToNumber(fields[2]) * 31 + ToNumber(fields[3])

\* C15: whatever the assessments, dates that are not written zero-padded
\* included, the date keys of the time series, in the order the chart has them,
\* are in the order of their calendar days (such a date was rejected, or rewritten
\* before the grouping).
C15_SeriesChronological ==
    LET keys == chartKeys
    IN  \A k \in 1..(Len(keys) - 1) : CalendarDay(keys[k]) < CalendarDay(keys[k + 1])

----------------------------------------------------------------------------
(* Properties of the store and of the navigation (checked under Spec) *)

\* The elements of a collection whose id is not the given one, in their order
RECURSIVE Others(_, _)
Others(seq, id) ==
    IF seq = <<>> THEN <<>>
    ELSE IF Head(seq).id = id
         THEN Others(Tail(seq), id)
         ELSE <<Head(seq)>> \o Others(Tail(seq), id)

\* C5: a confirmed deleteClass(id) takes the class with that id, and no other,
\* out of the class collection, empties the class reference of the students that
\* referred to id and of no others, and leaves every other student and the
\* assessment collection as they were.
C5_DeleteClassEffect ==
    [][\A id \in ClassIdSpace :
          DeleteClass(id, TRUE) =>
              /\ classes' = Others(classes, id)
              /\ Len(students') = Len(students)
              /\ \A i \in DOMAIN students :
                    IF students[i].classId = id
                    THEN /\ students'[i].classId = ""
                         /\ students'[i].id = students[i].id
                         /\ students'[i].name = students[i].name
                         /\ students'[i].readingLevel = students[i].readingLevel
                    ELSE students'[i] = students[i]
              /\ assessments' = assessments]_vars

\* A class was deleted: one student is left without a class while another class
\* and its student are still there.
C5_Witness ==
    /\ currentView = "CLASSES"
    /\ Len(classes) = 1
    /\ \E i, j \in DOMAIN students :
          /\ students[i].classId = ""
          /\ students[j].classId = classes[1].id

\* C6: a confirmed deleteStudent(id) takes the student with that id, and no other,
\* out of the student collection, the others keeping their order, and leaves the
\* assessment collection (the assessments of id included) and the class
\* collection as they were.
C6_DeleteStudentEffect ==
    [][\A id \in StudentIdSpace :
          DeleteStudent(id, TRUE) =>
              /\ students' = Others(students, id)
              /\ assessments' = assessments
              /\ classes' = classes]_vars

\* A student was deleted: its assessment is still in the store, and another
\* student is still in the list.
C6_Witness ==
    /\ currentView = "STUDENTS"
    /\ students # <<>>
    /\ \E i \in DOMAIN assessments : assessments[i].studentId \notin IdsOf(students)

\* C7: every student's classId is empty or the id of a class of the class
\* collection.
C7_ClassReferencesResolve ==
    \A i \in DOMAIN students :
        students[i].classId = "" \/ students[i].classId \in IdsOf(classes)

\* Students were added through the modal and a class was deleted: a student
\* without a class next to a student with one.
C7_Witness ==
    /\ Len(students) >= 2
    /\ \E i, j \in DOMAIN students :
          /\ students[i].classId = ""
          /\ students[j].classId # ""
          /\ students[j].classId \in IdsOf(classes)

\* C8: no two classes, no two students and no two assessments share an id.
C8_IdsUnique ==
    /\ \A i, j \in DOMAIN classes : classes[i].id = classes[j].id => i = j
    /\ \A i, j \in DOMAIN students : students[i].id = students[j].id => i = j
    /\ \A i, j \in DOMAIN assessments : assessments[i].id = assessments[j].id => i = j

\* C9: a navigation through the primary menu to a view other than STUDENTS empties
\* the class-filter parameter, and one to a view other than STUDENT_HISTORY
\* empties the selected-student parameter.
C9_NavigateClearsParameters ==
    [][\A view \in ViewStates :
          Navigate(view) =>
              /\ view # "STUDENTS" => selectedClassId' = ""
              /\ view # "STUDENT_HISTORY" => selectedStudentId' = ""]_vars

\* Both parameters are set (a class's students were opened, a history viewed and
\* left with the back button) and the primary menu can be used.
C9_Witness ==
    /\ currentView = "STUDENTS"
    /\ selectedClassId # ""
    /\ selectedStudentId # ""
    /\ ENABLED Navigate("CLASSES")

\* C10: in the STUDENT_HISTORY view, when no student has the selected id the
\* Dashboard is rendered; StudentHistory is rendered only for a student of the
\* collection with the selected id, and with exactly the assessments whose
\* studentId is that student's id, in their order.
C10_HistoryFallback ==
    LET shown == renderContent
        resolves == \E i \in DOMAIN students : students[i].id = selectedStudentId
    IN  /\ (currentView = "STUDENT_HISTORY" /\ ~resolves) => shown.component = "Dashboard"
        /\ shown.component = "StudentHistory" =>
              /\ currentView = "STUDENT_HISTORY"
              /\ shown.student \in Range(students)
              /\ shown.student.id = selectedStudentId
              /\ \A k \in DOMAIN shown.assessments :
                    shown.assessments[k].studentId = shown.student.id
              /\ \E pos \in [DOMAIN shown.assessments -> DOMAIN assessments] :
                    /\ \A k \in DOMAIN shown.assessments :
                          shown.assessments[k] = assessments[pos[k]]
                    /\ \A k, l \in DOMAIN shown.assessments : k < l => pos[k] < pos[l]
              /\ Len(shown.assessments) =
                    Cardinality({i \in DOMAIN assessments :
                                    assessments[i].studentId = shown.student.id})

\* The selected student was deleted after its history was viewed: the Dashboard
\* is shown in the STUDENT_HISTORY view.
C10_WitnessFallback ==
    /\ currentView = "STUDENT_HISTORY"
    /\ selectedStudentId # ""
    /\ selectedStudentId \notin IdsOf(students)
    /\ students # <<>>
    /\ renderContent.component = "Dashboard"

\* C11: in every step the assessment collection stays as it is or gets exactly one
\* new assessment at its end, the assessments it held staying in place unchanged
\* (also when a student or a class is deleted); and a step that appends is a
\* submission of the assessment form.
C11_AssessmentsAppendOnly ==
    [][\/ assessments' = assessments
       \/ /\ Len(assessments') = Len(assessments) + 1
          /\ SubSeq(assessments', 1, Len(assessments)) = assessments
          /\ \E studentId \in AssessmentStudentInputs, date \in AssessmentDateInputs,
                metrics \in AssessmentMetricsInputs, id \in AssessmentIdSpace :
                SaveAssessment(studentId, date, metrics, id)]_vars

\* An assessment was appended after the one the store started with, and then the
\* student of both was deleted: both are still there, in their order.
C11_Witness ==
    /\ Len(assessments) = 2
    /\ assessments[1] \in UNION {Range(m) : m \in MockAssessmentLists}
    /\ assessments[2].studentId = assessments[1].studentId
    /\ assessments[1].studentId \notin IdsOf(students)


\* C16: in every state of the App, whatever the view and the navigation
\* parameters, the menu's Dashboard entry can be used and leads to the Dashboard;
\* and a step that saves or cancels the assessment form ends in the Dashboard
\* view.
C16_DashboardReachable ==
    /\ [](ENABLED (/\ Navigate("DASHBOARD")
                   /\ currentView' = "DASHBOARD"
                   /\ renderContent'.component = "Dashboard"))
    /\ [][(\/ CancelAssessment
           \/ \E studentId \in AssessmentStudentInputs, date \in AssessmentDateInputs,
                 metrics \in AssessmentMetricsInputs, id \in AssessmentIdSpace :
                 SaveAssessment(studentId, date, metrics, id))
          => (currentView' = "DASHBOARD" /\ renderContent'.component = "Dashboard")]_vars

\* The history of a student of a class's list is shown, both navigation parameters
\* set, after an assessment was saved from the form.
C16_Witness ==
    /\ currentView = "STUDENT_HISTORY"
    /\ renderContent.component = "StudentHistory"
    /\ selectedClassId # ""
    /\ Len(assessments) = 2
    /\ ENABLED (Navigate("DASHBOARD") /\ currentView' = "DASHBOARD")


\* C17: an update of a class or of a student puts the argument in the place of
\* the element that has the argument's id and leaves the other elements, the
\* length and the order of the collection as they were, so that the collection is
\* unchanged when no element has that id; an add puts one element at the end and
\* leaves the elements before it as they were.
C17_UpdateAndAddFrame ==
    [][/\ currentView = "CLASSES" =>
             /\ \A id \in ClassIdSpace, name \in ClassNames :
                   UpdateClass(id, name) =>
                       /\ Len(classes') = Len(classes)
                       /\ \A i \in DOMAIN classes :
                             classes'[i] = IF classes[i].id = id
                                           THEN [id |-> id, name |-> name]
                                           ELSE classes[i]
                       /\ id \notin IdsOf(classes) => classes' = classes
                       /\ students' = students
             /\ \A name \in ClassNames, id \in ClassIdSpace :
                   AddClass(name, id) =>
                       /\ Len(classes') = Len(classes) + 1
                       /\ SubSeq(classes', 1, Len(classes)) = classes
                       /\ classes'[Len(classes')].name = name
                       /\ students' = students
       /\ (currentView = "STUDENTS" /\ currentView' = "STUDENTS" /\ isModalOpen /\ ~isModalOpen'
           /\ studentToEdit # <<>>) =>
             \A classId \in ClassIdSpace \cup {""} :
                ModalSubmit(NameAna, classId, "Iniciante", "s1") =>
                    /\ classes' = classes
                    /\ Len(students') = Len(students)
                    /\ \A i \in DOMAIN students :
                          students'[i] =
                              IF students[i].id = studentToEdit[1].id
                              THEN [id |-> studentToEdit[1].id, name |-> NameAna,
                                    classId |-> classId, readingLevel |-> "Iniciante"]
                              ELSE students[i]
                    /\ studentToEdit[1].id \notin IdsOf(students) => students' = students
       /\ (currentView = "STUDENTS" /\ currentView' = "STUDENTS" /\ isModalOpen /\ ~isModalOpen'
           /\ studentToEdit = <<>>) =>
             \A classId \in ClassIdSpace \cup {""}, id \in StudentIdSpace :
                ModalSubmit(NameAna, classId, "Iniciante", id) =>
                    /\ classes' = classes
                    /\ Len(students') = Len(students) + 1
                    /\ SubSeq(students', 1, Len(students)) = students
                    /\ students'[Len(students')].name = NameAna]_vars

\* A class was renamed next to a class that kept its name, and a student was moved
\* to another class by an edit next to a student that was not.
C17_Witness ==
    /\ Len(classes) = 2
    /\ classes[1] = [id |-> "c1", name |-> "Turma B"]
    /\ classes[2] = [id |-> "c2", name |-> "Turma A"]
    /\ Len(students) = 2
    /\ students[1].id = "s1" /\ students[1].classId = "c2"
    /\ students[2].id = "s2" /\ students[2].classId = "c1"


\* C20: a delete of a class or of a student whose confirmation is declined leaves
\* the students, the classes, the assessments, the view and the navigation
\* parameters as they were; and a step that takes an element out of the classes
\* or out of the students is a delete that was confirmed.
C20_DeclinedDeleteChangesNothing ==
    [][/\ \A id \in ClassIdSpace : DeleteClass(id, FALSE) => UNCHANGED appVars
       /\ \A id \in StudentIdSpace : DeleteStudent(id, FALSE) => UNCHANGED appVars
       /\ Len(classes') < Len(classes) => \E id \in ClassIdSpace : DeleteClass(id, TRUE)
       /\ Len(students') < Len(students) => \E id \in StudentIdSpace : DeleteStudent(id, TRUE)]_vars

\* The list shows, filtered by class, a student with an assessment: its delete
\* can be asked for, and declined or confirmed.
C20_Witness ==
    /\ currentView = "STUDENTS"
    /\ filterClassId # ""
    /\ \E i \in DOMAIN assessments : assessments[i].studentId = "s2"
    /\ ENABLED DeleteStudent("s2", FALSE)
    /\ ENABLED (DeleteStudent("s2", TRUE) /\ students' # students)

----------------------------------------------------------------------------
(* Properties of the AI report (checked under SpecAI) *)

\* C12: the history of a pending analysis call holds assessments of the call's
\* student only, each an assessment of the store and none twice, whatever the
\* class filter of the list; it holds all of that student's assessments up to 3,
\* the later day first, and no assessment of the student that is left out is of a
\* later day than one that is in.
C12_RecentHistoryTopThree ==
    \A r \in Range(analysisRequests) :
        LET h == r.recentHistory
            own == {i \in DOMAIN assessments : assessments[i].studentId = r.student}
        IN  /\ \A k \in DOMAIN h : h[k] \in Range(assessments) /\ h[k].studentId = r.student
            /\ \A k, l \in DOMAIN h : h[k] = h[l] => k = l
            /\ Len(h) = IF Cardinality(own) < 3 THEN Cardinality(own) ELSE 3
            /\ \A k, l \in DOMAIN h : k < l => DayNumber(h[k].date) >= DayNumber(h[l].date)
            /\ \A i \in own :
                  assessments[i] \notin Range(h) =>
                      \A k \in DOMAIN h : DayNumber(assessments[i].date) <= DayNumber(h[k].date)

\* The list is filtered by class; the report of a student with four assessments,
\* the latest of them last in the store, was asked for: its history has three, the
\* last of the store first, and the one left out is of an earlier day.
C12_Witness ==
    /\ filterClassId = "c1"
    /\ Cardinality({i \in DOMAIN assessments : assessments[i].studentId = "s1"}) = 4
    /\ \E r \in Range(analysisRequests) :
          /\ r.student = "s1"
          /\ Len(r.recentHistory) = 3
          /\ r.recentHistory[1] = assessments[Len(assessments)]
          /\ \E i \in DOMAIN assessments :
                /\ assessments[i].studentId = "s1"
                /\ assessments[i] \notin Range(r.recentHistory)
                /\ DayNumber(assessments[i].date) < DayNumber(r.recentHistory[3].date)


\* C18: a report asked for while calls are pending leaves those calls pending;
\* every pending call can return, whichever was made first; and a call that
\* returns puts the answer for its own student in aiAnalysis, sets loadingAi to
\* false and leaves the other pending calls pending.
C18_RequestsNotCancelled ==
    /\ [](\A i \in DOMAIN analysisRequests, outcome \in AnalysisOutcomes :
             ENABLED AnalysisReturns(i, outcome))
    /\ [][/\ \A student \in Range(students) :
                GenerateReport(student) =>
                    /\ Len(analysisRequests') = Len(analysisRequests) + 1
                    /\ SubSeq(analysisRequests', 1, Len(analysisRequests)) = analysisRequests
                    /\ analysisRequests'[Len(analysisRequests')].student = student.id
          /\ \A i \in DOMAIN analysisRequests, outcome \in AnalysisOutcomes :
                AnalysisReturns(i, outcome) =>
                    /\ aiAnalysis' = <<[about |-> analysisRequests[i].student,
                                        outcome |-> outcome]>>
                    /\ loadingAi' = FALSE
                    /\ Len(analysisRequests') = Len(analysisRequests) - 1
                    /\ \A j \in DOMAIN analysisRequests :
                          j # i => \E k \in DOMAIN analysisRequests' :
                                      analysisRequests'[k] = analysisRequests[j]]_vars

\* Reports of two students were asked for, the first modal closed in between; the
\* call made second has returned and the call made first is still pending.
C18_Witness ==
    /\ Len(analysisRequests) = 1
    /\ analysisRequests[1].student = "s1"
    /\ selectedStudent # <<>> /\ selectedStudent[1].id = "s2"
    /\ aiAnalysis # <<>> /\ aiAnalysis[1].about = "s2"
    /\ loadingAi = FALSE

----------------------------------------------------------------------------
(* Properties of the Dashboard's useMemo cells (checked under SpecMemo) *)

\* C13: whatever changes of the students array, the assessments array, the class
\* selector and the search text came before, the memoized filteredStudents,
\* filteredAssessments, stats, chartData and levelData are the values that a
\* computation from the current students, assessments, selector and search gives.
C13_MemoNeverStale ==
    LET fs == filteredStudents
        fa == filteredAssessmentsOf(assessments, fs)
    IN  /\ memo.filteredStudents = fs
        /\ memo.filteredAssessments = fa
        /\ memo.stats = statsOf(fs, fa)
        /\ memo.chartData = chartDataOf(fa)
        /\ memo.levelData = levelDataOf(fs)

\* Two assessments of the second student arrived and the class selector is on
\* that student's class: the cells hold one student and two assessments, where
\* the other class has one student too and no assessment.
C13_Witness ==
    /\ dashSelectedClassId = "c2"
    /\ Len(students) = 2
    /\ Len(assessments) = 2
    /\ Len(memo.filteredStudents) = 1
    /\ Len(memo.filteredAssessments) = 2
    /\ memo.stats.totalAssessments = 2
    /\ Len(filteredAssessmentsOf(assessments, filteredStudentsOf(students, "c1", searchStudent))) = 0

----------------------------------------------------------------------------
(* Properties of the TextGenerator (checked under SpecGen) *)

\* C19: at most one call of generateReadingMaterial is pending; loading is true
\* exactly while one is; and while loading is true the form cannot be submitted.
C19_OneGenerationInFlight ==
    /\ Len(materialRequests) <= 1
    /\ loading <=> materialRequests # <<>>
    /\ loading => ~ENABLED handleGenerate

\* A text is being waited for; the topic and the level were edited after the form
\* was submitted.
C19_Witness ==
    /\ loading
    /\ Len(materialRequests) = 1
    /\ materialRequests[1].topic = "Amizade"
    /\ topic = "Dinossauros"
    /\ level # "2 Ano Fundamental"
    /\ result = <<>>
    /\ error = ""

----------------------------------------------------------------------------
\* C21: a reading-material request ends with loading cleared and exactly one of:
\* the result set and the error message empty, or the error message set and the
\* result empty; starting a request clears the result and the error message; a
\* result and an error message are never there together.
C21_RequestOutcomes ==
    /\ [](~(result # <<>> /\ error # ""))
    /\ [][/\ (Len(materialRequests') > Len(materialRequests)) =>
                 (loading' /\ result' = <<>> /\ error' = "")
          /\ (Len(materialRequests') < Len(materialRequests)) =>
                 /\ loading' = FALSE
                 /\ \/ result' # <<>> /\ error' = ""
                    \/ result' = <<>> /\ error' = ErrorMessage]_vars

\* A request has failed: the message is shown, no result, loading cleared.
C21_Witness ==
    /\ error = ErrorMessage
    /\ result = <<>>
    /\ ~loading
    /\ materialRequests = <<>>

----------------------------------------------------------------------------
\* C22: whenever the AI report modal is open, not loading, and shows an analysis,
\* that analysis is the answer to the call made for the selected student.
C22_AnalysisOfSelectedStudent ==
    (selectedStudent # <<>> /\ ~loadingAi /\ aiAnalysis # <<>>)
        => aiAnalysis[1].about = selectedStudent[1].id

----------------------------------------------------------------------------
\* C23: an assessment whose student is not in the student collection is in no
\* Dashboard statistic, series or count, whatever the class selector and the
\* search (the selector "all" with an empty search included): the Dashboard's
\* values are those of the store without such assessments.  When a student with
\* k assessments is deleted the store keeps every assessment and the Dashboard's
\* number of assessments under "all" drops by k.
C23_OrphansNeverCounted ==
    /\ [](LET kept == SelectSeq(assessments, LAMBDA a : a.studentId \in IdsOf(students))
          IN  kept # assessments =>
                 \A classSel \in {"all"} \cup ClassIdSpace, search \in {<<>>, <<"a">>} :
                    LET fs == filteredStudentsOf(students, classSel, search)
                        fa == filteredAssessmentsOf(assessments, fs)
                        faKept == filteredAssessmentsOf(kept, fs)
                    IN  /\ \A i \in DOMAIN fa : fa[i].studentId \in IdsOf(students)
                        /\ statsOf(fs, fa) = statsOf(fs, faKept)
                        /\ chartDataOf(fa) = chartDataOf(faKept))
    /\ [][Len(students') < Len(students) =>
             LET deleted == IdsOf(students) \ IdsOf(students')
                 k == Cardinality({i \in DOMAIN assessments : assessments[i].studentId \in deleted})
                 CountUnderAll(studs, assess) ==
                     LET fs == filteredStudentsOf(studs, "all", <<>>)
                     IN  statsOf(fs, filteredAssessmentsOf(assess, fs)).totalAssessments
             IN  /\ deleted # {}
                 /\ assessments' = assessments
                 /\ CountUnderAll(students', assessments') =
                        CountUnderAll(students, assessments) - k]_vars

\* The Dashboard is shown, the store holds an assessment of a deleted student
\* and one of a student who is still there.
C23_Witness ==
    /\ currentView = "DASHBOARD"
    /\ \E i \in DOMAIN assessments : assessments[i].studentId \notin IdsOf(students)
    /\ filteredAssessments # <<>>

----------------------------------------------------------------------------
\* C24: in every reachable state the App's selectedClassId is empty or the id of
\* a class of the class collection, it is non-empty only while the view state is
\* STUDENTS or STUDENT_HISTORY, and it is empty whenever the ClassList is shown.
C24_ClassFilterParam ==
    /\ selectedClassId = "" \/ selectedClassId \in IdsOf(classes)
    /\ selectedClassId # "" => currentView \in {"STUDENTS", "STUDENT_HISTORY"}
    /\ currentView = "CLASSES" => selectedClassId = ""

\* A class was deleted, and the list of another class's students was opened
\* from the ClassList and a history from it.
C24_Witness ==
    /\ currentView = "STUDENT_HISTORY"
    /\ selectedClassId # ""
    /\ "c1" \notin IdsOf(classes)

=============================================================================
